---- MODULE Spec2Model ----
(***************************************************************************)
(* photo_renamer (src/main.py): rename the photos of a directory from      *)
(* their EXIF capture date and reverse-geocoded GPS position.              *)
(*                                                                         *)
(* Strings are sequences of one-character strings, so that lower(),        *)
(* endswith(), split() and replace() are computed, not assumed.            *)
(* Optional values (str | None, float | None) are sequences of length at   *)
(* most one: None is <<>> and a value v is <<v>>.                          *)
(* Coordinates are exact rationals [n, d]; the rounding of Python floats   *)
(* is not modelled.                                                        *)
(* The directory is tracked by entry name; the bytes behind a name are an  *)
(* input drawn when the file is read.                                      *)
(***************************************************************************)
EXTENDS Integers, Sequences, FiniteSets, TLC

VARIABLES
    file_names,   \* os.listdir(wdir), fixed when the run starts
    dir,          \* the names currently in the working directory
    moved,        \* rename targets that are not direct entries of wdir
    photo_files,  \* get_photo_files(workdir)
    i,            \* position of the for loop in photo_files (1-based)
    pc,           \* "start","read","parse","rename","done","exit","crashed","decode","decoded"
    exif_data,    \* tag mapping of the current file (a function on the keys present)
    latitude,     \* parse_exif_data's local, float | None
    longitude,    \* parse_exif_data's local, float | None
    parsed_exif,  \* ParsedExif(date, address)
    geo_reply,    \* what geolocator.reverse answered for the current file
    requests,     \* reverse-geocoding requests issued: sequence of loop positions
    processed,    \* per finished loop iteration: what was read and what was done
    exit_status,  \* <<>> while running, then <<code>>
    stderr        \* message printed by sys.exit / the traceback

vars == << file_names, dir, moved, photo_files, i, pc, exif_data, latitude,
           longitude, parsed_exif, geo_reply, requests, processed,
           exit_status, stderr >>

\* Largest number of entries os.listdir returns.
MaxFiles == 2
\* Largest numerator of a degrees/minutes/seconds component.
MaxNum == 2
\* Largest denominator of a degrees/minutes/seconds component.
MaxDen == 2

----------------------------------------------------------------------------
(* Python values *)

None == << >>
Some(v) == << v >>

\* Python truth value of a str | None: None and '' are false.
StrTruthy(o) == o # None /\ o[1] # << >>

\* exifread.utils.Ratio, and the value of the arithmetic on it: a fraction
\* n/d in lowest terms with d > 0
RECURSIVE Gcd(_, _)
Gcd(a, b) == IF b = 0 THEN a ELSE Gcd(b, a % b)
Reduced(n, d) ==
    LET g == Gcd(IF n < 0 THEN 0 - n ELSE n, d)
    IN  [n |-> n \div g, d |-> d \div g]
Ratio(n, d) == [n |-> n, d |-> d]
RatAdd(a, b) == Reduced(a.n * b.d + b.n * a.d, a.d * b.d)
RatDiv(a, k) == Reduced(a.n, a.d * k)
RatNeg(a) == [n |-> 0 - a.n, d |-> a.d]
\* Python truth value of a float | None: None and 0.0 are false.
FloatTruthy(o) == o # None /\ o[1].n # 0

\* str.lower() on the letters the model uses
LowerChar(c) ==
    CASE c = "B" -> "b" [] c = "C" -> "c" [] c = "E" -> "e"
      [] c = "G" -> "g" [] c = "H" -> "h" [] c = "I" -> "i"
      [] c = "J" -> "j" [] c = "P" -> "p" [] OTHER -> c
lower(s) == [k \in 1..Len(s) |-> LowerChar(s[k])]

\* str.endswith(suffix)
endswith(s, suf) ==
    /\ Len(s) >= Len(suf)
    /\ SubSeq(s, Len(s) - Len(suf) + 1, Len(s)) = suf

\* s.split(sep)[0]: the part of s before the first sep, or all of s
split_first(s, sep) ==
    LET at == {k \in 1..Len(s) : s[k] = sep}
    IN  IF at = {} THEN s
        ELSE SubSeq(s, 1, (CHOOSE k \in at : \A m \in at : k <= m) - 1)

\* s.replace(a, b) for single characters
replace(s, a, b) == [k \in 1..Len(s) |-> IF s[k] = a THEN b ELSE s[k]]

----------------------------------------------------------------------------
(* get_photo_files *)

photo_extensions ==
    << << ".", "j", "p", "g" >>,
       << ".", "j", "p", "e", "g" >>,
       << ".", "h", "e", "i", "c" >> >>

\* f.lower().endswith(photo_extensions)
IsPhoto_CaseSensitive(f) ==
    \E e \in 1..Len(photo_extensions) : endswith(f, photo_extensions[e])

IsPhoto(f) ==
    \E e \in 1..Len(photo_extensions) : endswith(lower(f), photo_extensions[e])

get_photo_files(names) == SelectSeq(names, IsPhoto)

----------------------------------------------------------------------------
(* Tag values.  An IfdTag whose .values is a str, an IfdTag whose .values  *)
(* is a list, or an entry that has no .values attribute at all.            *)

StrTag(s) == [kind |-> "str", values |-> s]
ListTag(l) == [kind |-> "list", values |-> l]
NoValues == [kind |-> "novalues", values |-> << >>]

\* get_exif_date: AttributeError (no .values, or .values has no .split) -> None
get_exif_date(date_tag) ==
    IF date_tag.kind = "str"
    THEN Some(replace(split_first(date_tag.values, " "), ":", "-"))
    ELSE None

\* Results of a call that may raise: Ret(v) or Raise(exception name)
Ret(v) == [raised |-> FALSE, exc |-> "", val |-> v]
Raise(e) == [raised |-> TRUE, exc |-> e, val |-> None]

\* coord = float(values[0]) + float(values[1]/60) + float(values[2]/3600)
DmsSum(v) == RatAdd(RatAdd(v[1], RatDiv(v[2], 60)), RatDiv(v[3], 3600))
DmsSum_SecondsAsMinutes(v) == RatAdd(RatAdd(v[1], RatDiv(v[2], 60)), RatDiv(v[3], 60))

IsSouthOrWest(ref) ==
    /\ ref.kind = "str"
    /\ ref.values \in { << "S" >>, << "W" >> }

\* get_get_gps_coords: only AttributeError is caught.  A str .values fails in
\* float()/division (ValueError, TypeError), a list shorter than three in
\* indexing (IndexError); both propagate.
get_get_gps_coords_WrongScale(gps_tag, gps_ref) ==
    CASE gps_tag.kind = "novalues" -> Ret(None)
      [] gps_tag.kind = "str" -> Raise("TypeError")
      [] gps_tag.kind = "list" /\ Len(gps_tag.values) < 3 -> Raise("IndexError")
      [] OTHER ->
            IF gps_ref.kind = "novalues" THEN Ret(None)
            ELSE IF IsSouthOrWest(gps_ref)
                 THEN Ret(Some(RatNeg(DmsSum_SecondsAsMinutes(gps_tag.values))))
                 ELSE Ret(Some(DmsSum_SecondsAsMinutes(gps_tag.values)))

get_get_gps_coords(gps_tag, gps_ref) ==
    CASE gps_tag.kind = "novalues" -> Ret(None)
      [] gps_tag.kind = "str" -> Raise("TypeError")
      [] gps_tag.kind = "list" /\ Len(gps_tag.values) < 3 -> Raise("IndexError")
      [] OTHER ->
            IF gps_ref.kind = "novalues" THEN Ret(None)
            ELSE IF IsSouthOrWest(gps_ref)
                 THEN Ret(Some(RatNeg(DmsSum(gps_tag.values))))
                 ELSE Ret(Some(DmsSum(gps_tag.values)))

----------------------------------------------------------------------------
(* get_address and parse_exif_data *)

\* What geolocator.reverse((lat, lon), zoom=8) can do: raise (network or
\* service error), return None (no result), or return a Location.
GeoError == [kind |-> "error", address |-> << >>]
GeoNoResult == [kind |-> "none", address |-> << >>]
GeoLocation(a) == [kind |-> "location", address |-> a]

\* get_address: location.address.split(',')[0]; None.address raises
\* AttributeError, which is not caught (only IndexError is).
get_address(reply) ==
    CASE reply.kind = "error" -> Raise("GeocoderServiceError")
      [] reply.kind = "none" -> Raise("AttributeError")
      [] OTHER -> Ret(Some(split_first(reply.address, ",")))

DateTimeOriginal == "EXIF DateTimeOriginal"
DateTimeDigitized == "EXIF DateTimeDigitized"
SceneCaptureType == "EXIF SceneCaptureType"
GPSLatitude == "GPS GPSLatitude"
GPSLatitudeRef == "GPS GPSLatitudeRef"
GPSLongitude == "GPS GPSLongitude"
GPSLongitudeRef == "GPS GPSLongitudeRef"
ImageMake == "Image Make"

\* the if / elif / elif / else chain of parse_exif_data
image_taken_date_DigitizedFirst(tags) ==
    IF DateTimeDigitized \in DOMAIN tags THEN get_exif_date(tags[DateTimeDigitized])
    ELSE IF DateTimeOriginal \in DOMAIN tags THEN get_exif_date(tags[DateTimeOriginal])
    ELSE IF SceneCaptureType \in DOMAIN tags THEN get_exif_date(tags[SceneCaptureType])
    ELSE None

image_taken_date(tags) ==
    IF DateTimeOriginal \in DOMAIN tags THEN get_exif_date(tags[DateTimeOriginal])
    ELSE IF DateTimeDigitized \in DOMAIN tags THEN get_exif_date(tags[DateTimeDigitized])
    ELSE IF SceneCaptureType \in DOMAIN tags THEN get_exif_date(tags[SceneCaptureType])
    ELSE None

\* the try block: latitude first, then longitude; tags[...] raises KeyError
\* while the arguments are evaluated, before the decoder is entered
Coords(status, lat, lon) == [status |-> status, lat |-> lat, lon |-> lon]

gps_coords(tags) ==
    IF ~({GPSLatitude, GPSLatitudeRef} \subseteq DOMAIN tags)
    THEN Coords("KeyError", None, None)
    ELSE LET lat == get_get_gps_coords(tags[GPSLatitude], tags[GPSLatitudeRef])
         IN  IF lat.raised THEN Coords(lat.exc, None, None)
             ELSE IF ~({GPSLongitude, GPSLongitudeRef} \subseteq DOMAIN tags)
             THEN Coords("KeyError", None, None)
             ELSE LET lon == get_get_gps_coords(tags[GPSLongitude],
                                                tags[GPSLongitudeRef])
                  IN  IF lon.raised THEN Coords(lon.exc, None, None)
                      ELSE Coords("ok", lat.val, lon.val)

\* "if latitude and longitude"
ShouldGeocode_Either(lat, lon) == FloatTruthy(lat) \/ FloatTruthy(lon)

ShouldGeocode(lat, lon) == FloatTruthy(lat) /\ FloatTruthy(lon)

Parsed(exc, date, address, lat, lon, called) ==
    [raised |-> exc # "", exc |-> exc, date |-> date, address |-> address,
     latitude |-> lat, longitude |-> lon, called |-> called]

\* parse_exif_data(tags), with the geocoder's answer as an input
parse_exif_data(tags, reply) ==
    LET date == image_taken_date(tags)
        c == gps_coords(tags)
    IN  CASE c.status = "KeyError" -> Parsed("", date, None, None, None, FALSE)
          [] c.status \notin {"KeyError", "ok"} ->
                Parsed(c.status, None, None, None, None, FALSE)
          [] OTHER ->
                IF ShouldGeocode(c.lat, c.lon)
                THEN LET a == get_address(reply)
                     IN  IF a.raised
                         THEN Parsed(a.exc, None, None, c.lat, c.lon, TRUE)
                         ELSE Parsed("", date, a.val, c.lat, c.lon, TRUE)
                ELSE Parsed("", date, None, c.lat, c.lon, FALSE)

----------------------------------------------------------------------------
(* rename_photo *)

\* str(None), what a missing date would be formatted as
NoneText == << "N", "o", "n", "e" >>

\* rename_photo: the name handed to os.rename, or None when the date is
\* None or '' and nothing is renamed
rename_photo_NoDateCheck(old_name, new_name_values) ==
    LET date == IF new_name_values.date = None THEN NoneText
                ELSE new_name_values.date[1]
        address == new_name_values.address
    IN  Some((IF StrTruthy(address) THEN date \o << "-" >> \o address[1] ELSE date)
             \o << "_" >> \o old_name)

rename_photo_SeparatorsSwapped(old_name, new_name_values) ==
    LET date == new_name_values.date
        address == new_name_values.address
    IN  IF StrTruthy(date)
        THEN Some((IF StrTruthy(address)
                   THEN date[1] \o << "_" >> \o address[1]
                   ELSE date[1])
                  \o << "-" >> \o old_name)
        ELSE None

rename_photo(old_name, new_name_values) ==
    LET date == new_name_values.date
        address == new_name_values.address
    IN  IF StrTruthy(date)
        THEN Some((IF StrTruthy(address)
                   THEN date[1] \o << "-" >> \o address[1]
                   ELSE date[1])
                  \o << "_" >> \o old_name)
        ELSE None

\* os.path.join(wdir, name) names an entry of wdir itself iff name holds no
\* path separator (name is never empty, "." or ".." here: it ends in
\* "_" + old_name)
IsDirectEntry(name) == \A k \in 1..Len(name) : name[k] # "/"

----------------------------------------------------------------------------
(* Inputs *)

\* directory entries
Name_a_jpg == << "a", ".", "j", "p", "g" >>
Name_Photo_JPG == << "P", "h", "o", "t", "o", ".", "J", "P", "G" >>
Name_c_jpeg == << "c", ".", "j", "p", "e", "g" >>
Name_d_HEIC == << "d", ".", "H", "E", "I", "C" >>
Name_e_png == << "e", ".", "p", "n", "g" >>
Name_jpg_txt == << "f", ".", "j", "p", "g", ".", "t", "x", "t" >>
\* an entry that already carries the name a.jpg is renamed to
Name_dated_a_jpg ==
    << "2", "0", "2", "3", "-", "0", "7", "-", "0", "4", "_", "a", ".", "j", "p", "g" >>

DirNames ==
    { Name_a_jpg, Name_Photo_JPG, Name_c_jpeg, Name_d_HEIC, Name_e_png,
      Name_jpg_txt, Name_dated_a_jpg }

\* os.listdir: every order of every set of at most MaxFiles entries
Listings ==
    UNION { { l \in [1..k -> DirNames] : \A x, y \in 1..k : l[x] = l[y] => x = y }
            : k \in 0..MaxFiles }

\* tag values
Date_2023 == StrTag(<< "2", "0", "2", "3", ":", "0", "7", ":", "0", "4", " ",
                       "1", "0", ":", "0", "0" >>)
Date_2022_NoTime == StrTag(<< "2", "0", "2", "2", ":", "0", "1", ":", "0", "2" >>)
Date_Slashes == StrTag(<< "2", "0", "2", "3", "/", "0", "7", "/", "0", "4", " ",
                          "1", "0", ":", "0", "0" >>)
Date_LeadingSpace == StrTag(<< " ", "1", "0", ":", "0", "0" >>)
SceneStandard == ListTag(<< 0 >>)

Dms_Zero == ListTag(<< Ratio(0, 1), Ratio(0, 1), Ratio(0, 1) >>)
Dms_40_30 == ListTag(<< Ratio(40, 1), Ratio(30, 1), Ratio(0, 1) >>)
Dms_Short == ListTag(<< Ratio(40, 1), Ratio(30, 1) >>)
Ref(c) == StrTag(<< c >>)

\* geocoder answers
Addr_Springfield_Full ==
    << "S", "p", "r", "i", "n", "g", "f", "i", "e", "l", "d", ",", " ",
       "I", "l", "l", "i", "n", "o", "i", "s", ",", " ", "U", "S", "A" >>
Addr_Springfield == << "S", "p", "r", "i", "n", "g", "f", "i", "e", "l", "d" >>
Addr_Biel == << "B", "i", "e", "l", "/", "B", "i", "e", "n", "n", "e", ",", " ",
                "B", "e", "r", "n" >>
Addr_LeadingComma == << ",", " ", "X" >>

GeoReplies ==
    { GeoError, GeoNoResult, GeoLocation(Addr_Springfield_Full),
      GeoLocation(Addr_Springfield), GeoLocation(Addr_Biel),
      GeoLocation(Addr_LeadingComma) }

\* A key that is not in the mapping is drawn as NoTag and left out by MkTags.
NoTag == [kind |-> "absent", values |-> << >>]

TagKeys ==
    << DateTimeOriginal, DateTimeDigitized, SceneCaptureType, GPSLatitude,
       GPSLatitudeRef, GPSLongitude, GPSLongitudeRef, ImageMake >>

MkTags(c) ==
    LET present == {k \in 1..Len(TagKeys) : c[k].kind # "absent"}
    IN  [key \in {TagKeys[k] : k \in present} |->
            c[CHOOSE k \in present : TagKeys[k] = key]]

EmptyTags == MkTags([k \in 1..Len(TagKeys) |-> NoTag])

\* tag mappings the parser is checked on
AllTags ==
    { MkTags(c) : c \in
        {NoTag, Date_2023, Date_Slashes, Date_LeadingSpace, SceneStandard, NoValues}
        \X {NoTag, Date_2022_NoTime, SceneStandard}
        \X {NoTag, SceneStandard, Date_2022_NoTime}
        \X {NoTag, Dms_Zero, Dms_40_30, Dms_Short, NoValues}
        \X {NoTag, Ref("N"), Ref("S"), Ref("X"), NoValues}
        \X {NoTag, Dms_Zero, Dms_40_30, NoValues}
        \X {NoTag, Ref("E"), Ref("W")}
        \X {NoTag, StrTag(<< "X" >>)} }

\* tag mappings the files of a run are drawn from
RunGps ==
    { << NoTag, NoTag, NoTag, NoTag >>,
      << Dms_40_30, Ref("N"), Dms_40_30, Ref("W") >>,
      << Dms_Zero, Ref("N"), Dms_40_30, Ref("E") >>,
      << Dms_40_30, Ref("X"), Dms_40_30, Ref("E") >>,
      << Dms_40_30, NoTag, Dms_40_30, Ref("E") >>,
      << Dms_Short, Ref("N"), Dms_40_30, Ref("E") >> }

RunDates ==
    { << NoTag, NoTag >>, << Date_2023, NoTag >>, << Date_Slashes, NoTag >>,
      << Date_LeadingSpace, NoTag >>, << SceneStandard, Date_2022_NoTime >> }

RunTags ==
    {EmptyTags} \cup
    { MkTags(<< t[1], t[2], NoTag, t[3], t[4], t[5], t[6], StrTag(<< "X" >>) >>) :
        t \in { << d[1], d[2], NoTag, NoTag, NoTag, NoTag >> : d \in RunDates }
              \cup { << d, NoTag, g[1], g[2], g[3], g[4] >> :
                     d \in {NoTag, Date_2023}, g \in RunGps } }

----------------------------------------------------------------------------
(* The run: the __main__ block *)

NoParsed == [date |-> None, address |-> None]

Init ==
    /\ file_names \in Listings
    /\ dir = {file_names[k] : k \in 1..Len(file_names)}
    /\ moved = {}
    /\ photo_files = << >>
    /\ i = 0
    /\ pc = "start"
    /\ exif_data = EmptyTags
    /\ latitude = None
    /\ longitude = None
    /\ parsed_exif = NoParsed
    /\ geo_reply = GeoNoResult
    /\ requests = << >>
    /\ processed = << >>
    /\ exit_status = None
    /\ stderr = ""

\* an exception nobody catches: traceback, exit status 1
Crash_LoggedAndRetried(exc) ==
    /\ pc' = "read"
    /\ exit_status' = exit_status
    /\ stderr' = exc

Crash(exc) ==
    /\ pc' = "crashed"
    /\ exit_status' = Some(1)
    /\ stderr' = exc

\* the end of one loop iteration: next candidate, or fall off the end (status 0).
\* The values of the iteration are dead from here on (each is assigned again
\* before it is read) and are cleared.
Advance(entry) ==
    /\ processed' = Append(processed, entry)
    /\ i' = i + 1
    /\ exif_data' = EmptyTags
    /\ latitude' = None
    /\ longitude' = None
    /\ parsed_exif' = NoParsed
    /\ geo_reply' = GeoNoResult
    /\ IF i + 1 > Len(photo_files)
       THEN /\ pc' = "done"
            /\ exit_status' = Some(0)
       ELSE /\ pc' = "read"
            /\ exit_status' = exit_status
    /\ stderr' = stderr

Entry(name, has_tags, date, address, target) ==
    [name |-> name, has_tags |-> has_tags, date |-> date, address |-> address,
     target |-> target]

\* workdir = get_working_dir(); photo_files = get_photo_files(workdir);
\* if not photo_files: sys.exit('No photos found')
Start ==
    /\ pc = "start"
    /\ photo_files' = get_photo_files(file_names)
    /\ IF photo_files' = << >>
       THEN /\ pc' = "exit"
            /\ exit_status' = Some(1)
            /\ stderr' = "No photos found"
            /\ i' = i
       ELSE /\ pc' = "read"
            /\ i' = 1
            /\ UNCHANGED << exit_status, stderr >>
    /\ UNCHANGED << file_names, dir, moved, exif_data, latitude, longitude,
                    parsed_exif, geo_reply, requests, processed >>

\* exif_data = get_exif_data(...); if not exif_data: continue
GetExifData ==
    /\ pc = "read"
    /\ \E tags \in RunTags :
          IF tags = EmptyTags
          THEN /\ Advance(Entry(photo_files[i], FALSE, None, None, None))
               /\ UNCHANGED << file_names, dir, moved, photo_files, requests >>
          ELSE /\ exif_data' = tags
               /\ pc' = "parse"
               /\ UNCHANGED << file_names, dir, moved, photo_files, i, latitude,
                               longitude, parsed_exif, geo_reply, requests,
                               processed, exit_status, stderr >>

\* open() or exifread.process_file raises (unreadable file, a directory
\* named like a photo): nothing catches it
GetExifDataFails ==
    /\ pc = "read"
    /\ Crash("OSError")
    /\ UNCHANGED << file_names, dir, moved, photo_files, i, exif_data, latitude,
                    longitude, parsed_exif, geo_reply, requests, processed >>

\* parsed_exif = parse_exif_data(exif_data)
ParseExifData ==
    /\ pc = "parse"
    /\ \E reply \in GeoReplies :
          LET r == parse_exif_data(exif_data, reply)
          IN  /\ r.called \/ reply = GeoNoResult
              /\ geo_reply' = reply
              /\ requests' = IF r.called THEN Append(requests, i) ELSE requests
              /\ latitude' = r.latitude
              /\ longitude' = r.longitude
              /\ IF r.raised
                 THEN /\ Crash(r.exc)
                      /\ parsed_exif' = parsed_exif
                 ELSE /\ parsed_exif' = [date |-> r.date, address |-> r.address]
                      /\ pc' = "rename"
                      /\ UNCHANGED << exit_status, stderr >>
    /\ UNCHANGED << file_names, dir, moved, photo_files, i, exif_data, processed >>

\* rename_photo(workdir, photo_file, parsed_exif), os.rename succeeding.  An
\* existing target is replaced (POSIX).  A target with a path separator in it
\* is not an entry of wdir: the file leaves the directory.
RenamePhoto ==
    /\ pc = "rename"
    /\ LET old == photo_files[i]
           target == rename_photo(old, parsed_exif)
       IN  /\ IF target = None
              THEN UNCHANGED << dir, moved >>
              ELSE IF IsDirectEntry(target[1])
              THEN /\ dir' = (dir \ {old}) \cup {target[1]}
                   /\ moved' = moved
              ELSE /\ dir' = dir \ {old}
                   /\ moved' = moved \cup {target[1]}
           /\ Advance(Entry(old, TRUE, parsed_exif.date, parsed_exif.address, target))
    /\ UNCHANGED << file_names, photo_files, requests >>

\* os.rename raising: the target exists (Windows), its directory does not
\* exist, or permission is denied
RenamePhotoFails ==
    /\ pc = "rename"
    /\ rename_photo(photo_files[i], parsed_exif) # None
    /\ Crash("OSError")
    /\ UNCHANGED << file_names, dir, moved, photo_files, i, exif_data, latitude,
                    longitude, parsed_exif, geo_reply, requests, processed >>

Next ==
    \/ Start
    \/ GetExifData
    \/ GetExifDataFails
    \/ ParseExifData
    \/ RenamePhoto
    \/ RenamePhotoFails

Spec == Init /\ [][Next]_vars

----------------------------------------------------------------------------
(* parse_exif_data on every tag mapping of AllTags: one file, already read *)

InitParse ==
    /\ file_names = << Name_a_jpg >>
    /\ dir = {Name_a_jpg}
    /\ moved = {}
    /\ photo_files = << Name_a_jpg >>
    /\ i = 1
    /\ pc = "parse"
    /\ exif_data \in AllTags \ {EmptyTags}
    /\ latitude = None
    /\ longitude = None
    /\ parsed_exif = NoParsed
    /\ geo_reply = GeoNoResult
    /\ requests = << >>
    /\ processed = << >>
    /\ exit_status = None
    /\ stderr = ""

SpecParse == InitParse /\ [][ParseExifData]_vars

----------------------------------------------------------------------------
(* get_get_gps_coords on every degrees/minutes/seconds triple within the   *)
(* bounds, as parse_exif_data calls it for the latitude                    *)

Ratios == { Ratio(n, d) : n \in 0..MaxNum, d \in 1..MaxDen }

HemisphereRefs == { "N", "S", "E", "W" }

InitGps ==
    /\ file_names = << Name_a_jpg >>
    /\ dir = {Name_a_jpg}
    /\ moved = {}
    /\ photo_files = << Name_a_jpg >>
    /\ i = 1
    /\ pc = "decode"
    /\ \E v \in Ratios \X Ratios \X Ratios, c \in HemisphereRefs :
          exif_data = MkTags(<< NoTag, NoTag, NoTag, ListTag(v), Ref(c),
                                NoTag, NoTag, NoTag >>)
    /\ latitude = None
    /\ longitude = None
    /\ parsed_exif = NoParsed
    /\ geo_reply = GeoNoResult
    /\ requests = << >>
    /\ processed = << >>
    /\ exit_status = None
    /\ stderr = ""

\* latitude = get_get_gps_coords(tags['GPS GPSLatitude'], tags['GPS GPSLatitudeRef'])
DecodeLatitude ==
    /\ pc = "decode"
    /\ latitude' = get_get_gps_coords(exif_data[GPSLatitude],
                                      exif_data[GPSLatitudeRef]).val
    /\ pc' = "decoded"
    /\ UNCHANGED << file_names, dir, moved, photo_files, i, exif_data, longitude,
                    parsed_exif, geo_reply, requests, processed, exit_status,
                    stderr >>

SpecGps == InitGps /\ [][DecodeLatitude]_vars

----------------------------------------------------------------------------
(* Properties *)

Text_2023_07_04 == << "2", "0", "2", "3", "-", "0", "7", "-", "0", "4" >>

\* C1: a candidate is renamed only if its tag mapping was non-empty and
\* parse_exif_data produced a date for it; a candidate whose mapping was empty
\* or whose date is None is handed to no rename and its original name is
\* still an entry of the directory, during and after the run.
C1_RenamedOnlyWithDate ==
    \A k \in 1..Len(processed) :
        LET e == processed[k]
        IN  /\ e.name = photo_files[k]
            /\ e.target # None => e.has_tags /\ e.date # None
            /\ (~e.has_tags \/ e.date = None) =>
                  /\ e.target = None
                  /\ photo_files[k] \in dir

\* C1 witness: the run is over, one candidate had tags but no date (and an
\* address), and it is still there under its name
C1_Witness ==
    /\ pc = "done"
    /\ \E k \in 1..Len(processed) :
          /\ processed[k].has_tags
          /\ processed[k].date = None
          /\ processed[k].address # None
          /\ processed[k].name \in dir

\* C2: the name a file is renamed to is date + "_" + original name when the
\* address is absent (None or empty), and date + "-" + address + "_" +
\* original name when it is present; 2023-07-04 and a.jpg give
\* 2023-07-04_a.jpg, and with Springfield 2023-07-04-Springfield_a.jpg.
C2_ComposedName ==
    \A k \in 1..Len(processed) :
        LET e == processed[k]
        IN  e.target # None =>
              /\ e.date # None
              /\ IF e.address = None \/ e.address = Some(<< >>)
                 THEN e.target[1] = e.date[1] \o << "_" >> \o e.name
                 ELSE e.target[1] =
                        e.date[1] \o << "-" >> \o e.address[1] \o << "_" >> \o e.name
              /\ (e.date = Some(Text_2023_07_04) /\ e.name = Name_a_jpg) =>
                    /\ e.address = None => e.target[1] = Name_dated_a_jpg
                    /\ e.address = Some(Addr_Springfield) =>
                          e.target[1] =
                            Text_2023_07_04 \o << "-" >> \o Addr_Springfield
                              \o << "_", "a", ".", "j", "p", "g" >>

\* C2 witness: one file renamed without an address and one with an address
C2_Witness ==
    \E k, l \in 1..Len(processed) :
        /\ processed[k].target # None
        /\ processed[k].address = None
        /\ processed[l].target # None
        /\ processed[l].address = Some(Addr_Springfield)
        /\ processed[l].target[1] \in dir

\* C3: the address parse_exif_data returns is not None only if the latitude
\* and the longitude were both decoded and the reverse-geocoding lookup was
\* made and returned a location; otherwise it is None or nothing is returned.
C3_AddressOnlyFromLookup ==
    pc \in {"rename", "crashed"} =>
        /\ parsed_exif.address # None =>
              /\ pc = "rename"
              /\ latitude # None
              /\ longitude # None
              /\ geo_reply.kind = "location"
              /\ requests = << i >>
        /\ pc = "crashed" => parsed_exif = NoParsed

\* C3 witness: a non-empty address was returned
C3_Witness ==
    /\ pc = "rename"
    /\ StrTruthy(parsed_exif.address)
    /\ latitude # None
    /\ longitude # None

RequestsFor(k) == Cardinality({r \in 1..Len(requests) : requests[r] = k})

\* C4: exactly one reverse-geocoding request is issued for a processed file
\* whose latitude and longitude both decode to a value, and none for any
\* other file.
C4_OneRequestPerDecodedFile ==
    /\ pc \in {"rename", "crashed"} /\ exif_data # EmptyTags =>
          IF latitude # None /\ longitude # None
          THEN RequestsFor(i) = 1
          ELSE RequestsFor(i) = 0
    /\ \A k \in 1..Len(processed) : ~processed[k].has_tags => RequestsFor(k) = 0

IsHemisphere(tag, letters) == tag.kind = "str" /\ tag.values \in letters

\* C5: when the latitude tag is present and its reference tag is missing or
\* malformed, or when any of the four GPS tags is absent, no geocoding
\* request is made for the file and the address, latitude and longitude of
\* the result are None.
C5_NoLookupWithoutReference ==
    LET keys == DOMAIN exif_data
        bad_ref ==
            /\ GPSLatitude \in keys
            /\ \/ GPSLatitudeRef \notin keys
               \/ ~IsHemisphere(exif_data[GPSLatitudeRef], { << "N" >>, << "S" >> })
        absent == ~({GPSLatitude, GPSLatitudeRef, GPSLongitude, GPSLongitudeRef}
                      \subseteq keys)
    IN  (pc \in {"rename", "crashed"} /\ exif_data # EmptyTags /\ (bad_ref \/ absent)) =>
            /\ RequestsFor(i) = 0
            /\ pc = "rename" =>
                  /\ parsed_exif.address = None
                  /\ latitude = None
                  /\ longitude = None

Position(name) == CHOOSE k \in 1..Len(file_names) : file_names[k] = name

EndsInPhotoExtension(name) ==
    \E ext \in { << ".", "j", "p", "g" >>, << ".", "j", "p", "e", "g" >>,
                 << ".", "h", "e", "i", "c" >> } :
        /\ Len(name) >= Len(ext)
        /\ \A k \in 1..Len(ext) :
              LowerChar(name[Len(name) - Len(ext) + k]) = ext[k]

\* C6: get_photo_files selects exactly the entries whose lower-cased name
\* ends in .jpg, .jpeg or .heic (Photo.JPG among them), in listing order; when
\* none matches the run ends with "No photos found" and a non-zero status,
\* and no file is read, geocoded or renamed.
C6_PhotoFilesSelected ==
    pc # "start" =>
        /\ {photo_files[k] : k \in 1..Len(photo_files)} =
              {file_names[k] : k \in {m \in 1..Len(file_names) :
                                        EndsInPhotoExtension(file_names[m])}}
        /\ \A x, y \in 1..Len(photo_files) :
              x < y => Position(photo_files[x]) < Position(photo_files[y])
        /\ (\E k \in 1..Len(file_names) : file_names[k] = Name_Photo_JPG) =>
              (\E k \in 1..Len(photo_files) : photo_files[k] = Name_Photo_JPG)
        /\ (photo_files = << >>) <=> (pc = "exit")
        /\ pc = "exit" =>
              /\ stderr = "No photos found"
              /\ exit_status # None
              /\ exit_status[1] # 0
              /\ processed = << >>
              /\ requests = << >>
              /\ exif_data = EmptyTags
              /\ moved = {}
              /\ dir = {file_names[k] : k \in 1..Len(file_names)}
              /\ ~ENABLED Next

\* C6 witness: Photo.JPG was selected and the other entry was not
C6_Witness ==
    /\ photo_files = << Name_Photo_JPG >>
    /\ Len(file_names) = 2
    /\ file_names[2] = Name_Photo_JPG

\* C7: every rename is in place: the target path of every rename is an entry
\* directly inside the working directory, so no file leaves it.
C7_RenameInPlace ==
    /\ moved = {}
    /\ \A k \in 1..Len(processed) :
          processed[k].target # None =>
              \A c \in 1..Len(processed[k].target[1]) : processed[k].target[1][c] # "/"

\* the unsigned value deg + min/60 + sec/3600 as one fraction in lowest terms
Unsigned(v) ==
    Reduced(3600 * v[1].n * v[2].d * v[3].d + 60 * v[2].n * v[1].d * v[3].d
              + v[3].n * v[1].d * v[2].d,
            3600 * v[1].d * v[2].d * v[3].d)

\* C8: for every valid degrees/minutes/seconds triple get_get_gps_coords
\* returns deg + min/60 + sec/3600, which is not negative, when the reference
\* is N or E, and the negation of that value when the reference is S or W.
C8_SignedDecimalDegrees ==
    pc = "decoded" =>
        LET v == exif_data[GPSLatitude].values
            ref == exif_data[GPSLatitudeRef].values[1]
            u == Unsigned(v)
        IN  /\ latitude # None
            /\ latitude[1].d = u.d
            /\ ref \in {"N", "E"} =>
                  /\ latitude[1].n = u.n
                  /\ latitude[1].n >= 0
            /\ ref \in {"S", "W"} =>
                  /\ latitude[1].n = 0 - u.n
                  /\ latitude[1].n <= 0

\* C8 witness: a non-zero triple with seconds decoded for a southern latitude
C8_Witness ==
    /\ pc = "decoded"
    /\ exif_data[GPSLatitudeRef].values = << "S" >>
    /\ exif_data[GPSLatitude].values[3].n > 0
    /\ exif_data[GPSLatitude].values[2].n > 0
    /\ latitude # None
    /\ latitude[1].n < 0

\* the field parse_exif_data takes the date from: the first one present
SelectedDateField(tags) ==
    IF DateTimeOriginal \in DOMAIN tags THEN << DateTimeOriginal >>
    ELSE IF DateTimeDigitized \in DOMAIN tags THEN << DateTimeDigitized >>
    ELSE IF SceneCaptureType \in DOMAIN tags THEN << SceneCaptureType >>
    ELSE << >>

\* out is value up to its first space, with every ":" replaced by "-"
IsDateOf(out, value) ==
    LET n == Cardinality({k \in 1..Len(value) : \A m \in 1..k : value[m] # " "})
    IN  /\ Len(out) = n
        /\ \A k \in 1..n : out[k] = (IF value[k] = ":" THEN "-" ELSE value[k])

\* C9: the date comes from exactly one field, the first present of
\* DateTimeOriginal, DateTimeDigitized, SceneCaptureType: it is that field's
\* value up to the first space with every ":" replaced by "-"; it is None if
\* that field's value is not a string, whatever the later fields hold, and
\* None if none of the three is present.
C9_DateFromFirstPresentField ==
    pc = "rename" =>
        LET f == SelectedDateField(exif_data)
        IN  /\ f = << >> => parsed_exif.date = None
            /\ f # << >> =>
                  IF exif_data[f[1]].kind = "str"
                  THEN /\ parsed_exif.date # None
                       /\ IsDateOf(parsed_exif.date[1], exif_data[f[1]].values)
                  ELSE parsed_exif.date = None
            /\ (f = << DateTimeOriginal >> /\ exif_data[DateTimeOriginal] = Date_2023) =>
                  parsed_exif.date = Some(Text_2023_07_04)

\* C9 witness: DateTimeOriginal is present but not a string, DateTimeDigitized
\* is present and well-formed, and the date is None
C9_Witness ==
    /\ pc = "rename"
    /\ {DateTimeOriginal, DateTimeDigitized} \subseteq DOMAIN exif_data
    /\ exif_data[DateTimeOriginal].kind = "list"
    /\ exif_data[DateTimeDigitized] = Date_2022_NoTime
    /\ parsed_exif.date = None

\* C10: candidates are processed one at a time in listing order; an error
\* nobody handles ends the run at the candidate it happened on with a
\* non-zero status, leaves the directory and the outcomes of the earlier
\* candidates as they were, leaves that candidate and every later one under
\* its original name, and nothing happens afterwards.
C10_AbortKeepsEarlierOutcomes ==
    [][ /\ pc # "start" =>
              /\ i' \in {i, i + 1}
              /\ processed' # processed =>
                    /\ i' = i + 1
                    /\ Len(processed') = i
                    /\ SubSeq(processed', 1, Len(processed)) = processed
                    /\ processed'[i].name = photo_files[i]
              /\ requests' # requests => requests' = Append(requests, i)
              /\ (dir' # dir \/ moved' # moved) =>
                    /\ processed' # processed
                    /\ dir \ dir' = {photo_files[i]}
              /\ \A k \in (i' + 1)..Len(photo_files) : photo_files[k] \in dir'
        /\ stderr' # stderr => pc' \in {"crashed", "exit"}
        /\ (pc' = "crashed" /\ pc # "crashed") =>
              /\ exit_status' = Some(1)
              /\ dir' = dir
              /\ moved' = moved
              /\ processed' = processed
              /\ Len(processed) = i - 1
              /\ i' = i
              /\ \A k \in i..Len(photo_files) : photo_files[k] \in dir'
        /\ pc \in {"crashed", "done", "exit"} => UNCHANGED vars
      ]_vars

\* C10 witness: the run aborted on the second candidate after the first one
\* had been renamed, and the first one is still renamed
C10_Witness ==
    /\ pc = "crashed"
    /\ i = 2
    /\ processed[1].target # None
    /\ processed[1].target[1] \in dir
    /\ processed[1].name \notin dir
    /\ photo_files[2] \in dir

====
